---- MODULE Spec2Model ----
(***************************************************************************)
(* Chunked-transcription pipeline of mp4_converter_standalone.py:          *)
(* AudioSplitter (planning and splitting), WhisperTranscriber (per-chunk   *)
(* transcription, timestamp offsets, merge, cleanup) and the batch loop of *)
(* main().                                                                 *)
(*                                                                         *)
(* Times are Python floats in the source.  They are modelled as exact      *)
(* rationals <<numerator, denominator>> in lowest terms, so that the 0.9   *)
(* safety margin and the division by the chunk count are computed, not     *)
(* approximated; float rounding error is not modelled.                     *)
(* Text is a sequence of one-character tokens; a Korean syllable is one    *)
(* token, written in its romanised form.                                   *)
(***************************************************************************)
EXTENDS Integers, Sequences, FiniteSets, TLC

\* ------------------------------------------------------------------ bounds
\* Largest number of chunk extractions followed in one file.
MaxChunks == 4
\* Largest number of input files in one batch run.
MaxFiles == 2
\* Largest number of cleanup_temp_files calls followed on one AudioSplitter.
MaxCleanupCalls == 4
\* Largest number of FFmpeg output lines read in one monitored operation.
MaxLines == 3
\* Largest number of chunk results handed to merge_transcripts on its own.
MaxResults == 3
\* Longest text the backend returns to the cleaning step on its own.
MaxTextLen == 4

\* ------------------------------------------------------- program constants
\* AudioSplitter.__init__: max_chunk_size_mb default.
DefaultMaxChunkSizeMB == 20
\* calculate_chunk_duration: "At least 1 minute chunks".
MinChunkSeconds == 60
\* calculate_chunk_duration: "Default 20 minutes" of the except branch.
FallbackChunkSeconds == 1200

\* -------------------------------------------------------- float arithmetic
RECURSIVE GCD(_, _)
GCD(a, b) == IF b = 0 THEN a ELSE GCD(b, a % b)

\* The rational n/d (n >= 0, d > 0) in lowest terms.
Rat(n, d) == LET g == GCD(n, d) IN <<n \div g, d \div g>>

RInt(n) == <<n, 1>>
RZero == <<0, 1>>
RAdd(a, b) == Rat(a[1] * b[2] + b[1] * a[2], a[2] * b[2])
\* a - b, used only where a >= b
RSub(a, b) == Rat(a[1] * b[2] - b[1] * a[2], a[2] * b[2])
RMul(a, b) == Rat(a[1] * b[1], a[2] * b[2])
\* a / b, b # 0
RDiv(a, b) == Rat(a[1] * b[2], a[2] * b[1])
RLe(a, b) == a[1] * b[2] <= b[1] * a[2]
RLt(a, b) == a[1] * b[2] < b[1] * a[2]
RMin(a, b) == IF RLe(a, b) THEN a ELSE b
RMax(a, b) == IF RLe(a, b) THEN b ELSE a
\* abs(a - b)
RAbsDiff(a, b) == IF RLe(b, a) THEN RSub(a, b) ELSE RSub(b, a)

\* ------------------------------------------------------------------ inputs
\* True durations (seconds) of the audio files a run may meet.
Durations == {0, 45, 150, 3600}
\* Sizes (MB) of the audio files a run may meet: below, at and above the
\* ceiling, and three times the ceiling.
FileSizesMB == {10, 20, 30, 60}

\* -------------------------------------------------------------------- text
IsSpace(c) == c \in {" ", "\n", "\t"}

RECURSIVE LStrip(_)
LStrip(s) ==
  IF s = <<>> THEN s
  ELSE IF IsSpace(Head(s)) THEN LStrip(Tail(s)) ELSE s

RECURSIVE RStrip(_)
RStrip(s) ==
  IF s = <<>> THEN s
  ELSE IF IsSpace(s[Len(s)]) THEN RStrip(SubSeq(s, 1, Len(s) - 1)) ELSE s

\* str.strip()
Strip(s) == RStrip(LStrip(s))

StartsWith(s, p) == Len(p) <= Len(s) /\ SubSeq(s, 1, Len(p)) = p

\* str.replace(p, ""): left to right, non-overlapping occurrences.
RECURSIVE Replace(_, _)
Replace(s, p) ==
  IF s = <<>> THEN <<>>
  ELSE IF StartsWith(s, p) THEN Replace(SubSeq(s, Len(p) + 1, Len(s)), p)
  ELSE <<Head(s)>> \o Replace(Tail(s), p)

\* re.sub(r'\s+', ' ', s)
RECURSIVE CollapseSpaces(_)
CollapseSpaces(s) ==
  IF s = <<>> THEN <<>>
  ELSE IF IsSpace(Head(s)) THEN <<" ">> \o CollapseSpaces(LStrip(s))
  ELSE <<Head(s)>> \o CollapseSpaces(Tail(s))

\* " ".join(parts)
RECURSIVE Join(_)
Join(parts) ==
  IF parts = <<>> THEN <<>>
  ELSE IF Len(parts) = 1 THEN parts[1]
  ELSE parts[1] \o <<" ">> \o Join(Tail(parts))

\* str(n) of a natural number
Digits == <<"0", "1", "2", "3", "4", "5", "6", "7", "8", "9">>
RECURSIVE Decimal(_)
Decimal(n) ==
  IF n < 10 THEN <<Digits[n + 1]>>
  ELSE Decimal(n \div 10) \o <<Digits[(n % 10) + 1]>>

prompt_phrases ==
  << <<"han", "guk", "eo", " ", "eum", "seong", "eul", " ", "jeong", "hwak",
       "ha", "ge", " ", "in", "sik", "hae", "ju", "se", "yo", ".">>,
     <<"an", "nyeong", "ha", "se", "yo", ".">>,
     <<"han", "guk", "eo", " ", "eum", "seong", "eul", " ", "jeong", "hwak",
       "ha", "ge", " ", "in", "sik", "hae", "ju", "se", "yo">>,
     <<"an", "nyeong", "ha", "se", "yo">> >>

subtitle_hallucinations ==
  << <<"ja", "mak", "je", "gong", "ja">>,
     <<"ja", "mak", " ", "je", "gong", "ja">>,
     <<"ja", "mak", "je", "gong">>,
     <<"ja", "mak", " ", "je", "gong">>,
     <<"gu", "dok">>,
     <<"joh", "a", "yo">>,
     <<"al", "lim">>,
     <<"gu", "dok", "gwa", " ", "joh", "a", "yo">>,
     <<"si", "cheong", "hae", "ju", "syeo", "seo", " ", "gam", "sa", "hap",
       "ni", "da">>,
     <<"chae", "neol", " ", "gu", "dok">>,
     <<"S", "u", "b", "s", "c", "r", "i", "b", "e">>,
     <<"L", "i", "k", "e">> >>

all_unwanted == prompt_phrases \o subtitle_hallucinations

\* for phrase in phrases: text = text.replace(phrase, "").strip()
RECURSIVE RemovePhrases(_, _)
RemovePhrases(text, phrases) ==
  IF phrases = <<>> THEN text
  ELSE RemovePhrases(Strip(Replace(text, Head(phrases))), Tail(phrases))

\* The cleaning step of transcribe_chunk.
CleanText(text) == Strip(CollapseSpaces(RemovePhrases(text, all_unwanted)))

\* The error text with the 0-based chunk index in it.
ErrorMarkerZeroBased(chunk_index, reason) ==
  <<"[Error transcribing chunk ">> \o Decimal(chunk_index) \o <<": ">>
    \o reason \o <<"]">>

\* The text transcribe_chunk returns when the backend raised on chunk
\* chunk_index (0-based) with message reason.
ErrorMarker(chunk_index, reason) ==
  <<"[Error transcribing chunk ">> \o Decimal(chunk_index + 1) \o <<": ">>
    \o reason \o <<"]">>

BackendReasons == { <<"backend error">> }

\* merge_transcripts: the list the loop builds, then its " ".join and strip.
RECURSIVE MergedParts(_, _)
MergedParts(results, i) ==
  IF i > Len(results) THEN <<>>
  ELSE LET chunk_text == Strip(results[i].text)
       IN  (IF chunk_text = <<>> THEN <<>>
            ELSE (IF Len(results) > 1 /\ i > 1 THEN << <<"\n">> >> ELSE <<>>)
                 \o <<chunk_text>>)
           \o MergedParts(results, i + 1)

\* merge_transcripts that goes through the results from the last to the
\* first.
merge_transcripts_reversed(results) ==
  Strip(Join(MergedParts([k \in 1..Len(results) |->
                            results[Len(results) + 1 - k]], 1)))

merge_transcripts(results) == Strip(Join(MergedParts(results, 1)))

\* ---------------------------------------------------------------- planning
\* get_audio_duration: the duration in seconds, or 0 when both queries fail.
get_audio_duration(present, duration, probe_ok) ==
  IF present /\ probe_ok THEN RInt(duration) ELSE RZero

\* calculate_chunk_duration with the 0.9 safety margin left out.
calculate_chunk_duration_no_margin(present, file_size_mb, max_chunk_size_mb, probed) ==
  IF ~present THEN RInt(FallbackChunkSeconds)
  ELSE IF file_size_mb <= max_chunk_size_mb THEN probed
  ELSE RMax(RInt(MinChunkSeconds),
            RDiv(probed, Rat(file_size_mb, max_chunk_size_mb)))

\* calculate_chunk_duration; probed is what its get_audio_duration call
\* returned.  os.path.getsize raises when the file is absent, and the except
\* branch answers the 20-minute default.
calculate_chunk_duration(present, file_size_mb, max_chunk_size_mb, probed) ==
  IF ~present THEN RInt(FallbackChunkSeconds)
  ELSE IF file_size_mb <= max_chunk_size_mb THEN probed
  ELSE LET chunks_needed == Rat(file_size_mb, max_chunk_size_mb)
           chunk_duration == RDiv(probed, chunks_needed)
       IN  RMax(RInt(MinChunkSeconds), RMul(chunk_duration, Rat(9, 10)))

\* ------------------------------------------------------------------- state
VARIABLES
  WHISPER_AVAILABLE,       \* module flag set by the guarded imports
  workflow_type,           \* "audio-only" | "text-only" | "audio-and-text"
  format_choice,           \* "m4a" | "mp3" | "both" | "None"
  keep_intermediate,
  total_files,             \* len(input_files)
  pc,                      \* position of main() and of the calls below it
  file_index,              \* i of the batch loop (0 before the first file)
  successful_conversions,
  failed_conversions,
  counted,                 \* per input file: counter increments it caused
  outcome,                 \* of the current file: "none" | "success" | "failed"
  input_exists,            \* the input MP4 is on disk
  audio_file,              \* main's audio_file: "None" | "m4a" | "mp3"
  remove_called,           \* main() called os.remove on the temporary audio
  m4a_exists,              \* the M4A output of this file is on disk
  mp3_exists,              \* the MP3 output of this file is on disk
  exc,                     \* exception in flight, "none" when there is none
  audio_duration,          \* true duration (s) of the audio being transcribed
  audio_size_mb,           \* its size in MB
  audio_present,           \* it is still on disk while it is split
  device,                  \* WhisperTranscriber.device: "cuda" | "cpu"
  model,                   \* WhisperTranscriber.model: "None" | "loaded"
  gpu_cache,               \* "empty" | "used" | "cleared"
  temp_dir,                \* AudioSplitter.temp_dir: "None" | "exists" | "removed"
  rmtree_called,           \* cleanup_temp_files called shutil.rmtree
  plan_total_duration,     \* calculate_chunk_duration: probed total duration
  chunk_duration,          \* split_audio_file: planned chunk duration
  total_duration,          \* split_audio_file: probed total duration
  start_time,              \* split_audio_file: start of the next chunk
  chunk_files,             \* chunk files made, each with the interval it holds
  extract_failed,          \* an extraction raised CalledProcessError
  offset_step,             \* transcribe_audio_file: chunk_duration
  results,                 \* transcribe_chunks: results so far
  chunk_calls,             \* arguments and fate of each transcribe_chunk call
  text_written,            \* the text artifact of this file was written
  final_transcript,        \* its content
  load_calls,              \* calls of whisper.load_model for this file
  cleanup_log,             \* cleanup_temp_files calls of one AudioSplitter
  tracker_duration,        \* ProgressTracker.duration
  tracker_current_time,    \* ProgressTracker.current_time
  progress_percentage,     \* ProgressTracker.progress_percentage
  is_running,              \* ProgressTracker.is_running
  last_percentage,         \* _run_ffmpeg_with_progress: last_percentage
  probe,                   \* how get_video_duration got its answer
  shown,                   \* arguments of the show_progress_bar calls
  parse_log                \* time and percentage after each parse_progress

batchVars == <<WHISPER_AVAILABLE, workflow_type, format_choice,
               keep_intermediate, total_files>>
countVars == <<file_index, successful_conversions, failed_conversions,
               counted>>
diskVars == <<input_exists, audio_file, remove_called, m4a_exists, mp3_exists>>
mediaVars == <<audio_duration, audio_size_mb>>
engineVars == <<device, model, gpu_cache, load_calls>>
splitVars == <<audio_present, temp_dir, rmtree_called, plan_total_duration,
               chunk_duration, total_duration, start_time, chunk_files,
               extract_failed>>
chunkVars == <<offset_step, results, chunk_calls>>
textVars == <<text_written, final_transcript>>

trackerVars == <<tracker_duration, tracker_current_time, progress_percentage,
                 is_running, last_percentage, probe, shown, parse_log>>
unitVars == <<cleanup_log, trackerVars>>

vars == <<batchVars, countVars, diskVars, mediaVars, engineVars, splitVars,
          chunkVars, textVars, pc, outcome, exc, unitVars>>

TextWorkflows == {"text-only", "audio-and-text"}
AudioWorkflows == {"audio-only", "audio-and-text"}

\* The workflow settings main() can end up with (lines 1059-1092).
\* keep_intermediate is read only where both formats were chosen (lines
\* 1168 and 1313), so it varies only there.
Settings ==
  { [workflow |-> "text-only", format |-> "None", keep |-> FALSE] }
  \cup { [workflow |-> w, format |-> f, keep |-> FALSE] :
           w \in AudioWorkflows, f \in {"m4a", "mp3", "both"} }
  \cup { [workflow |-> w, format |-> "both", keep |-> TRUE] :
           w \in AudioWorkflows }

\* The per-file state as it is before a file is processed.
FileReset ==
  /\ outcome' = "none"
  /\ exc' = "none"
  /\ audio_file' = "None"
  /\ remove_called' = FALSE
  /\ m4a_exists' = FALSE
  /\ mp3_exists' = FALSE
  /\ audio_duration' = 0
  /\ audio_size_mb' = 0
  /\ audio_present' = FALSE
  /\ device' = "cpu"
  /\ model' = "None"
  /\ gpu_cache' = "empty"
  /\ load_calls' = 0
  /\ temp_dir' = "None"
  /\ rmtree_called' = FALSE
  /\ plan_total_duration' = RZero
  /\ chunk_duration' = RZero
  /\ total_duration' = RZero
  /\ start_time' = RZero
  /\ chunk_files' = <<>>
  /\ extract_failed' = FALSE
  /\ offset_step' = RZero
  /\ results' = <<>>
  /\ chunk_calls' = <<>>
  /\ text_written' = FALSE
  /\ final_transcript' = <<>>

\* ProgressTracker.__init__ (lines 48-52), and no cleanup call made yet.
UnitsIdle ==
  /\ cleanup_log = <<>>
  /\ tracker_duration = RZero
  /\ tracker_current_time = RZero
  /\ progress_percentage = RZero
  /\ is_running = FALSE
  /\ last_percentage = RZero
  /\ probe = "none"
  /\ shown = <<>>
  /\ parse_log = <<>>

\* The per-file state before any file is processed: what FileReset restores.
FileIdle ==
  /\ outcome = "none"
  /\ exc = "none"
  /\ audio_file = "None"
  /\ remove_called = FALSE
  /\ m4a_exists = FALSE
  /\ mp3_exists = FALSE
  /\ audio_duration = 0
  /\ audio_size_mb = 0
  /\ audio_present = FALSE
  /\ device = "cpu"
  /\ model = "None"
  /\ gpu_cache = "empty"
  /\ load_calls = 0
  /\ temp_dir = "None"
  /\ rmtree_called = FALSE
  /\ plan_total_duration = RZero
  /\ chunk_duration = RZero
  /\ total_duration = RZero
  /\ start_time = RZero
  /\ chunk_files = <<>>
  /\ extract_failed = FALSE
  /\ offset_step = RZero
  /\ results = <<>>
  /\ chunk_calls = <<>>
  /\ text_written = FALSE
  /\ final_transcript = <<>>

Init ==
  /\ UnitsIdle
  /\ WHISPER_AVAILABLE \in BOOLEAN
  /\ \E s \in Settings :
       /\ workflow_type = s.workflow
       /\ format_choice = s.format
       /\ keep_intermediate = s.keep
  /\ total_files \in 1..MaxFiles
  /\ pc = "check_whisper"
  /\ file_index = 0
  /\ successful_conversions = 0
  /\ failed_conversions = 0
  /\ counted = [i \in 1..total_files |-> 0]
  /\ input_exists = TRUE
  /\ FileIdle

\* ------------------------------------------------------------- conversions
\* mp4_to_m4a that looks only at the output file, not at what ffmpeg
\* returned.
mp4_to_m4a_ignores_exit(in_exists, success, output_exists) ==
  IF ~in_exists THEN "FileNotFoundError"
  ELSE IF ~output_exists THEN "RuntimeError"
  ELSE "ok"

\* mp4_to_m4a: what the call raises, "ok" when it returns.  success is what
\* _run_ffmpeg_with_progress returned, output_exists whether the output file
\* is on disk afterwards.
mp4_to_m4a(in_exists, success, output_exists) ==
  IF ~in_exists THEN "FileNotFoundError"
  ELSE IF ~success \/ ~output_exists THEN "RuntimeError"
  ELSE "ok"

\* convert_mp4_to_mp3_direct: the same shape as mp4_to_m4a.
convert_mp4_to_mp3_direct(in_exists, success, output_exists) ==
  IF ~in_exists THEN "FileNotFoundError"
  ELSE IF ~success \/ ~output_exists THEN "RuntimeError"
  ELSE "ok"

\* m4a_to_mp3 (lines 542-590): the same shape again, on the M4A file.
m4a_to_mp3(in_exists, success, output_exists) ==
  IF ~in_exists THEN "FileNotFoundError"
  ELSE IF ~success \/ ~output_exists THEN "RuntimeError"
  ELSE "ok"

\* An os.remove whose OSError is not caught.
remove_intermediate_uncaught(exists, remove_ok) ==
  [exists |-> (exists /\ ~remove_ok),
   warned |-> FALSE,
   raised |-> ~(exists /\ remove_ok)]

\* os.remove of an intermediate audio file inside try/except OSError (lines
\* 1169-1174, 1189-1194, 1314-1319): the file afterwards, whether the
\* warning was printed, and whether an exception leaves the block.
remove_intermediate(exists, remove_ok) ==
  [exists |-> (exists /\ ~remove_ok),
   warned |-> ~(exists /\ remove_ok),
   raised |-> FALSE]

\* ------------------------------------------------------------ main(): batch
\* A main() that starts the file loop without looking at Whisper.
CheckWhisperSkipped ==
  /\ pc = "check_whisper"
  /\ pc' = "next_file"
  /\ UNCHANGED <<unitVars, batchVars, countVars, diskVars, mediaVars, engineVars,
                 splitVars, chunkVars, textVars, outcome, exc>>

\* Lines 1104-1108: transcription workflows stop when Whisper is missing.
CheckWhisper ==
  /\ pc = "check_whisper"
  /\ pc' = IF workflow_type \in TextWorkflows /\ ~WHISPER_AVAILABLE
           THEN "aborted" ELSE "next_file"
  /\ UNCHANGED <<unitVars, batchVars, countVars, diskVars, mediaVars, engineVars,
                 splitVars, chunkVars, textVars, outcome, exc>>

\* Line 1120: the loop takes the next input file.
NextFile ==
  /\ pc = "next_file"
  /\ file_index < total_files
  /\ file_index' = file_index + 1
  /\ input_exists' \in BOOLEAN
  /\ FileReset
  /\ pc' = "step1"
  /\ UNCHANGED <<unitVars, batchVars, successful_conversions, failed_conversions,
                 counted>>

\* What is left of the transcriber, the splitter and their results once the
\* loop body that made them is over: nothing.
ObjectsGone ==
  /\ audio_duration' = 0
  /\ audio_size_mb' = 0
  /\ audio_present' = FALSE
  /\ device' = "cpu"
  /\ model' = "None"
  /\ gpu_cache' = "empty"
  /\ load_calls' = 0
  /\ temp_dir' = "None"
  /\ rmtree_called' = FALSE
  /\ plan_total_duration' = RZero
  /\ chunk_duration' = RZero
  /\ total_duration' = RZero
  /\ start_time' = RZero
  /\ chunk_files' = <<>>
  /\ extract_failed' = FALSE
  /\ offset_step' = RZero
  /\ results' = <<>>
  /\ chunk_calls' = <<>>
  /\ text_written' = FALSE
  /\ final_transcript' = <<>>

\* Lines 1205-1220: the loop is over and the tally is printed.
Summary ==
  /\ pc = "next_file"
  /\ file_index = total_files
  /\ pc' = "done"
  /\ ObjectsGone
  /\ UNCHANGED <<unitVars, batchVars, countVars, diskVars, outcome, exc>>

\* Lines 1145-1174: step 1, audio conversion.
AudioConversion ==
  /\ pc = "step1"
  /\ \E s1 \in BOOLEAN, o1 \in BOOLEAN, s2 \in BOOLEAN, o2 \in BOOLEAN,
        remove_ok \in BOOLEAN :
       LET r1 == mp4_to_m4a(input_exists, s1, o1)
           r2 == convert_mp4_to_mp3_direct(input_exists, s2, o2)
           out1 == input_exists /\ o1
           out2 == input_exists /\ o2
       IN
       IF workflow_type \notin AudioWorkflows
       THEN /\ pc' = "step2"
            /\ UNCHANGED <<audio_file, m4a_exists, mp3_exists, exc,
                           remove_called>>
       ELSE IF format_choice = "m4a"
       THEN /\ m4a_exists' = out1
            /\ mp3_exists' = mp3_exists
            /\ remove_called' = remove_called
            /\ audio_file' = IF r1 = "ok" THEN "m4a" ELSE audio_file
            /\ exc' = IF r1 = "ok" THEN "none" ELSE r1
            /\ pc' = IF r1 = "ok" THEN "step2" ELSE "except"
       ELSE IF format_choice = "mp3"
       THEN /\ mp3_exists' = out2
            /\ m4a_exists' = m4a_exists
            /\ remove_called' = remove_called
            /\ audio_file' = IF r2 = "ok" THEN "mp3" ELSE audio_file
            /\ exc' = IF r2 = "ok" THEN "none" ELSE r2
            /\ pc' = IF r2 = "ok" THEN "step2" ELSE "except"
       ELSE \* "both"
            IF r1 # "ok"
            THEN /\ m4a_exists' = out1
                 /\ mp3_exists' = mp3_exists
                 /\ remove_called' = remove_called
                 /\ audio_file' = audio_file
                 /\ exc' = r1
                 /\ pc' = "except"
            ELSE IF r2 # "ok"
            THEN /\ m4a_exists' = out1
                 /\ mp3_exists' = out2
                 /\ remove_called' = remove_called
                 /\ audio_file' = audio_file
                 /\ exc' = r2
                 /\ pc' = "except"
            ELSE IF ~keep_intermediate /\ workflow_type = "audio-only"
            THEN LET rm == remove_intermediate(out1, remove_ok)
                 IN  /\ mp3_exists' = out2
                     /\ audio_file' = "m4a"
                     /\ m4a_exists' = rm.exists
                     /\ remove_called' = TRUE
                     /\ exc' = IF rm.raised THEN "OSError" ELSE "none"
                     /\ pc' = IF rm.raised THEN "except" ELSE "step2"
            ELSE /\ mp3_exists' = out2
                 /\ audio_file' = "m4a"
                 /\ m4a_exists' = out1
                 /\ remove_called' = remove_called
                 /\ exc' = "none"
                 /\ pc' = "step2"
  /\ UNCHANGED <<unitVars, batchVars, countVars, input_exists, mediaVars,
                 engineVars, splitVars, chunkVars, textVars, outcome>>

\* Lines 1176-1181: step 2 for a text-only file extracts the audio first.
TextConversion ==
  /\ pc = "step2"
  /\ workflow_type = "text-only"
  /\ \E s1 \in BOOLEAN, o1 \in BOOLEAN :
       LET r1 == mp4_to_m4a(input_exists, s1, o1)
       IN  /\ m4a_exists' = (input_exists /\ o1)
           /\ audio_file' = IF r1 = "ok" THEN "m4a" ELSE audio_file
           /\ exc' = IF r1 = "ok" THEN "none" ELSE r1
           /\ pc' = IF r1 = "ok" THEN "transcribe_audio_to_text" ELSE "except"
  /\ UNCHANGED <<unitVars, batchVars, countVars, input_exists, remove_called, mp3_exists,
                 mediaVars, engineVars, splitVars, chunkVars, textVars,
                 outcome>>

\* Line 1177: step 2 of the other workflows.
TextStep ==
  /\ pc = "step2"
  /\ workflow_type # "text-only"
  /\ pc' = IF workflow_type = "audio-and-text"
           THEN "transcribe_audio_to_text" ELSE "processed"
  /\ UNCHANGED <<unitVars, batchVars, countVars, diskVars, mediaVars, engineVars,
                 splitVars, chunkVars, textVars, outcome, exc>>

\* Lines 1186-1197: after transcribe_audio_to_text returned (or without a
\* step 2), remove the temporary audio of a text-only file and count the
\* file as a success.
FileSucceeded ==
  /\ pc = "processed"
  /\ \E remove_ok \in BOOLEAN :
       LET rm == remove_intermediate(m4a_exists, remove_ok)
           raised == workflow_type = "text-only" /\ rm.raised
       IN  /\ m4a_exists' = IF workflow_type = "text-only"
                             THEN rm.exists ELSE m4a_exists
           /\ remove_called' = (workflow_type = "text-only" \/ remove_called)
           /\ successful_conversions' =
                IF raised THEN successful_conversions
                ELSE successful_conversions + 1
           /\ counted' = IF raised THEN counted
                         ELSE [counted EXCEPT ![file_index] = @ + 1]
           /\ outcome' = IF raised THEN outcome ELSE "success"
           /\ exc' = IF raised THEN "OSError" ELSE exc
           /\ pc' = IF raised THEN "except" ELSE "next_file"
  /\ UNCHANGED <<unitVars, batchVars, file_index, failed_conversions, input_exists,
                 audio_file, mp3_exists, mediaVars, engineVars, splitVars,
                 chunkVars, textVars>>

\* An exception of one file that ends the batch uncounted.
FileFailedStopsBatch ==
  /\ pc = "except"
  /\ outcome' = "failed"
  /\ pc' = "done"
  /\ UNCHANGED <<unitVars, batchVars, countVars, diskVars, mediaVars,
                 engineVars, splitVars, chunkVars, textVars, exc>>

\* Lines 1199-1201: the per-file exception handler.
FileFailed ==
  /\ pc = "except"
  /\ failed_conversions' = failed_conversions + 1
  /\ counted' = [counted EXCEPT ![file_index] = @ + 1]
  /\ outcome' = "failed"
  /\ pc' = "next_file"
  /\ UNCHANGED <<unitVars, batchVars, file_index, successful_conversions, diskVars,
                 mediaVars, engineVars, splitVars, chunkVars, textVars, exc>>

\* Lines 1278-1285: main() does not return after the summary; once the
\* "Press Enter to exit" prompt is answered it sets the counters to zero
\* again.  The transcriber and splitter of the first loop are gone.
SecondLoopCounters ==
  /\ pc = "done"
  /\ file_index' = 0
  /\ successful_conversions' = 0
  /\ failed_conversions' = 0
  /\ FileReset
  /\ pc' = "again_next"
  /\ UNCHANGED <<unitVars, batchVars, counted, input_exists>>

\* Lines 1287-1328: the body of the second loop for one file.  It converts
\* by format_choice alone (nothing at all when no format was chosen) and
\* counts the file again.  prior_m4a, prior_mp3: what the first loop left.
SecondLoopFile ==
  /\ pc = "again_next"
  /\ file_index < total_files
  /\ file_index' = file_index + 1
  /\ \E in_exists \in BOOLEAN, s1 \in BOOLEAN, o1 \in BOOLEAN,
        s2 \in BOOLEAN, o2 \in BOOLEAN, remove_ok \in BOOLEAN,
        prior_m4a \in BOOLEAN, prior_mp3 \in BOOLEAN :
       LET r1 == mp4_to_m4a(in_exists, s1, o1)
           r2 == convert_mp4_to_mp3_direct(in_exists, s2, o2)
           r3 == m4a_to_mp3(o1, s2, o2)
           rm == remove_intermediate(o1, remove_ok)
           removes == format_choice = "both" /\ r1 = "ok" /\ r3 = "ok"
                      /\ ~keep_intermediate
           raised == IF format_choice = "m4a" THEN r1
                     ELSE IF format_choice = "mp3" THEN r2
                     ELSE IF format_choice = "both"
                     THEN (IF r1 # "ok" THEN r1
                           ELSE IF r3 # "ok" THEN r3
                           ELSE IF removes /\ rm.raised THEN "OSError"
                           ELSE "ok")
                     ELSE "ok"
       IN  /\ input_exists' = in_exists
           /\ m4a_exists' =
                IF format_choice \in {"m4a", "both"} /\ in_exists
                THEN (IF removes THEN rm.exists ELSE o1)
                ELSE prior_m4a
           /\ mp3_exists' =
                IF format_choice = "mp3" /\ in_exists THEN o2
                ELSE IF format_choice = "both" /\ r1 = "ok" THEN o2
                ELSE prior_mp3
           /\ remove_called' = removes
           /\ audio_file' = "None"
           /\ exc' = IF raised = "ok" THEN "none" ELSE raised
           /\ outcome' = IF raised = "ok" THEN "success" ELSE "failed"
           /\ successful_conversions' =
                IF raised = "ok" THEN successful_conversions + 1
                ELSE successful_conversions
           /\ failed_conversions' =
                IF raised = "ok" THEN failed_conversions
                ELSE failed_conversions + 1
           /\ counted' = [counted EXCEPT ![file_index + 1] = @ + 1]
  /\ pc' = "again_next"
  /\ UNCHANGED <<unitVars, batchVars, mediaVars, engineVars, splitVars,
                 chunkVars, textVars>>

\* Lines 1330-1349: the second summary, after which main() returns.
SecondSummary ==
  /\ pc = "again_next"
  /\ file_index = total_files
  /\ pc' = "returned"
  /\ UNCHANGED <<unitVars, batchVars, countVars, diskVars, mediaVars, engineVars,
                 splitVars, chunkVars, textVars, outcome, exc>>

\* -------------------------------------------- transcribe_audio_to_text entry
\* The audio file main() hands to transcription is on disk.
AudioOnDisk == IF audio_file = "mp3" THEN mp3_exists ELSE m4a_exists

\* The audio file is on disk or not from now on (another process may delete
\* it between two steps); the other output is untouched.
AudioOnDiskBecomes(exists) ==
  /\ m4a_exists' = IF audio_file = "mp3" THEN m4a_exists ELSE exists
  /\ mp3_exists' = IF audio_file = "mp3" THEN exists ELSE mp3_exists

\* transcribe_audio_to_text without the existence check.
transcribe_audio_to_text_unchecked(whisper_available, exists) ==
  IF ~whisper_available THEN "RuntimeError" ELSE "ok"

\* The checks at the head of transcribe_audio_to_text (lines 705-712), both
\* outside its try block: what they raise, "ok" when they pass.
transcribe_audio_to_text_checks(whisper_available, exists) ==
  IF ~whisper_available THEN "RuntimeError"
  ELSE IF ~exists THEN "FileNotFoundError"
  ELSE "ok"

\* Lines 705-724 and WhisperTranscriber.__init__: the availability and
\* existence checks, then a new transcriber (device picked, no model yet);
\* transcribe_audio_file then makes a new AudioSplitter (lines 387-396).
TranscribeAudioToText ==
  /\ pc = "transcribe_audio_to_text"
  /\ \E exists \in {AudioOnDisk, FALSE}, cuda \in BOOLEAN,
        d \in Durations, mb \in FileSizesMB :
       /\ AudioOnDiskBecomes(exists)
       /\ IF transcribe_audio_to_text_checks(WHISPER_AVAILABLE, exists) # "ok"
          THEN /\ exc' = transcribe_audio_to_text_checks(WHISPER_AVAILABLE,
                                                         exists)
               /\ pc' = "except"
               /\ UNCHANGED <<mediaVars, device>>
          ELSE /\ audio_duration' = d
               /\ audio_size_mb' = mb
               /\ device' = IF cuda THEN "cuda" ELSE "cpu"
               /\ pc' = "split"
               /\ exc' = "none"
  /\ UNCHANGED <<unitVars, batchVars, countVars, input_exists, audio_file,
                 remove_called, model, gpu_cache, load_calls, splitVars,
                 chunkVars, textVars, outcome>>

\* ---------------------------------------------------------------- splitting
\* An exception that leaves transcribe_audio_file without its finally clause.
AfterRaiseSkipsFinally == "except"

\* Where an exception raised inside the try block of transcribe_audio_file
\* continues: its finally clause.
AfterRaise == "finally"

\* split_audio_file up to its loop (lines 139-162): make the workspace, plan,
\* probe, and either copy the file as the only chunk or start the loop.
SplitAudioFile ==
  /\ pc = "split"
  /\ \E present \in {AudioOnDisk, FALSE}, mkdtemp_ok \in BOOLEAN,
        probe1_ok \in BOOLEAN,
        probe2_ok \in BOOLEAN, copy_ok \in BOOLEAN :
       LET planned == calculate_chunk_duration(
                        present, audio_size_mb, DefaultMaxChunkSizeMB,
                        get_audio_duration(present, audio_duration, probe1_ok))
           probed == get_audio_duration(present, audio_duration, probe2_ok)
       IN
       /\ audio_present' = present
       /\ AudioOnDiskBecomes(present)
       /\ IF ~mkdtemp_ok
          THEN /\ exc' = "OSError"
               /\ pc' = AfterRaise
               /\ UNCHANGED <<temp_dir, plan_total_duration, chunk_duration,
                              total_duration, chunk_files>>
          ELSE /\ temp_dir' = "exists"
               /\ plan_total_duration' =
                    get_audio_duration(present, audio_duration, probe1_ok)
               /\ chunk_duration' = planned
               /\ total_duration' = probed
               /\ IF RLe(probed, planned)
                  THEN IF present /\ copy_ok
                       THEN /\ chunk_files' =
                                 <<[start |-> RZero,
                                    end |-> RInt(audio_duration)]>>
                            /\ pc' = "probe"
                            /\ exc' = "none"
                       ELSE /\ chunk_files' = <<>>
                            /\ exc' = "OSError"
                            /\ pc' = AfterRaise
                  ELSE /\ chunk_files' = <<>>
                       /\ pc' = "split_loop"
                       /\ exc' = "none"
  /\ start_time' = RZero
  /\ UNCHANGED <<unitVars, batchVars, countVars, input_exists, audio_file,
                 remove_called, mediaVars, engineVars, rmtree_called,
                 extract_failed, chunkVars, textVars, outcome>>

\* One iteration of the loop (lines 164-192): extract [start, end) with
\* ffmpeg; a CalledProcessError leaves the loop and the chunks made so far
\* are returned.
ExtractChunk ==
  /\ pc = "split_loop"
  /\ RLt(start_time, total_duration)
  /\ Len(chunk_files) < MaxChunks
  /\ \E run_ok \in BOOLEAN :
       LET end_time == RMin(RAdd(start_time, chunk_duration), total_duration)
       IN  IF run_ok
           THEN /\ chunk_files' = Append(chunk_files,
                                    [start |-> start_time, end |-> end_time])
                /\ start_time' = end_time
                /\ UNCHANGED <<pc, extract_failed>>
           ELSE /\ extract_failed' = TRUE
                /\ pc' = "probe"
                /\ UNCHANGED <<chunk_files, start_time>>
  /\ UNCHANGED <<unitVars, batchVars, countVars, diskVars, mediaVars, engineVars,
                 audio_present, temp_dir, rmtree_called, plan_total_duration,
                 chunk_duration, total_duration, chunkVars, textVars, outcome,
                 exc>>

\* Lines 164 and 194-195: the loop condition fails and the list is returned.
SplitReturn ==
  /\ pc = "split_loop"
  /\ ~RLt(start_time, total_duration)
  /\ pc' = "probe"
  /\ UNCHANGED <<unitVars, batchVars, countVars, diskVars, mediaVars, engineVars,
                 splitVars, chunkVars, textVars, outcome, exc>>

\* ------------------------------------------------------------ transcription
\* transcribe_audio_file lines 402-404: the per-chunk offset step.
OffsetStep(total, n_chunks) ==
  IF n_chunks > 1 THEN RDiv(total, RInt(n_chunks)) ELSE RZero

\* transcribe_chunks that goes straight to its loop.
TranscribeChunksEntrySkipsLoad == "chunks"

\* Where transcribe_chunks starts: the model check of lines 352-353.
TranscribeChunksEntry == "load"

ComputeOffsetStep ==
  /\ pc = "probe"
  /\ \E probe_ok \in BOOLEAN :
       offset_step' =
         OffsetStep(get_audio_duration(audio_present, audio_duration, probe_ok),
                    Len(chunk_files))
  /\ pc' = TranscribeChunksEntry
  /\ UNCHANGED <<unitVars, batchVars, countVars, diskVars, mediaVars, engineVars,
                 splitVars, results, chunk_calls, textVars, outcome, exc>>

\* transcribe_chunks lines 352-353 with load_model (lines 242-264).
LoadModel ==
  /\ pc = "load"
  /\ IF model # "None"
     THEN /\ pc' = "chunks"
          /\ UNCHANGED <<model, gpu_cache, load_calls, exc>>
     ELSE \E load_ok \in BOOLEAN :
            /\ load_calls' = load_calls + 1
            /\ IF load_ok
               THEN /\ model' = "loaded"
                    /\ gpu_cache' = IF device = "cuda" THEN "used"
                                    ELSE gpu_cache
                    /\ pc' = "chunks"
                    /\ exc' = "none"
               ELSE /\ exc' = "Exception"
                    /\ pc' = AfterRaise
                    /\ UNCHANGED <<model, gpu_cache>>
  /\ UNCHANGED <<unitVars, batchVars, countVars, diskVars, mediaVars, device, splitVars,
                 chunkVars, textVars, outcome>>

\* The start_time with the chunks counted from 1 instead of 0.
ChunkStartTimeFromOne(i, step) == RMul(RInt(i + 1), step)

\* The start_time transcribe_chunks passes for chunk i (0-based), line 361.
ChunkStartTime(i, step) == RMul(RInt(i), step)

\* transcribe_chunk lines 299-303: the offset is added to every segment.
AdjustSegments(segments, offset) ==
  IF RLt(RZero, offset)
  THEN [k \in 1..Len(segments) |->
          [start |-> RAdd(segments[k].start, offset),
           end |-> RAdd(segments[k].end, offset)]]
  ELSE segments

\* What the backend may answer for a chunk of length len.
BackendResults(len) ==
  { [text |-> <<" ", "h", "i">>,
     segments |-> <<[start |-> RZero, end |-> len]>>],
    [text |-> <<" ", "L", "i", "k", "e">>, segments |-> <<>>] }

\* transcribe_chunk on a backend answer raw (lines 299-344).
ChunkResult(raw, offset) ==
  [text |-> CleanText(raw.text),
   segments |-> AdjustSegments(raw.segments, offset)]

\* transcribe_chunk when the backend raised (lines 346-348).
ChunkError(chunk_index, reason) ==
  [text |-> ErrorMarker(chunk_index, reason), segments |-> <<>>]

\* One iteration of the loop of transcribe_chunks (lines 360-363).
TranscribeChunk ==
  /\ pc = "chunks"
  /\ Len(results) < Len(chunk_files)
  /\ LET i == Len(results)
         chunk == chunk_files[i + 1]
         offset == ChunkStartTime(i, offset_step)
     IN  \/ \E raw \in BackendResults(RSub(chunk.end, chunk.start)) :
              /\ results' = Append(results, ChunkResult(raw, offset))
              /\ chunk_calls' = Append(chunk_calls,
                                  [start_time |-> offset, failed |-> FALSE])
         \/ \E reason \in BackendReasons :
              /\ results' = Append(results, ChunkError(i, reason))
              /\ chunk_calls' = Append(chunk_calls,
                                  [start_time |-> offset, failed |-> TRUE])
  /\ UNCHANGED <<unitVars, batchVars, countVars, diskVars, mediaVars, engineVars,
                 splitVars, offset_step, textVars, pc, outcome, exc>>

\* A loop that may be left before its last chunk.
ChunkLoopLeftEarly(res, files) == TRUE

\* The for loop of transcribe_chunks (line 360) has gone through chunk_files.
ChunkLoopOver(res, files) == Len(res) = Len(files)

\* transcribe_chunks returns; merge and write the artifact (lines 409-419).
MergeAndWrite ==
  /\ pc = "chunks"
  /\ ChunkLoopOver(results, chunk_files)
  /\ final_transcript' = merge_transcripts(results)
  /\ \E write_ok \in BOOLEAN :
       /\ text_written' = write_ok
       /\ exc' = IF write_ok THEN "none" ELSE "OSError"
  /\ pc' = "finally"
  /\ UNCHANGED <<unitVars, batchVars, countVars, diskVars, mediaVars, engineVars,
                 splitVars, chunkVars, outcome>>

\* cleanup_temp_files that calls shutil.rmtree without the existence check
\* and without the try block.
cleanup_temp_files_unguarded(dir, rmtree_ok) ==
  [temp_dir |-> IF dir = "exists" /\ rmtree_ok THEN "removed" ELSE dir,
   rmtree_called |-> (dir # "None"),
   warned |-> FALSE,
   raised |-> (dir = "removed" \/ (dir = "exists" /\ ~rmtree_ok))]

\* cleanup_temp_files (lines 197-204): the workspace afterwards, and whether
\* shutil.rmtree was called.
\* warned: shutil.rmtree raised and the except branch printed the warning;
\* raised: an exception leaves the method (line 203 catches every Exception).
cleanup_temp_files(dir, rmtree_ok) ==
  [temp_dir |-> IF dir = "exists" /\ rmtree_ok THEN "removed" ELSE dir,
   rmtree_called |-> (dir = "exists"),
   warned |-> (dir = "exists" /\ ~rmtree_ok),
   raised |-> FALSE]

\* A finally clause that leaves the GPU cache as it is.
ClearGpuMemorySkipped(dev, cache) == cache

\* Lines 428-431: torch.cuda.empty_cache() when the device is "cuda".  The
\* device is "cuda" only if torch.cuda.is_available() was true when
\* _setup_device chose it (lines 226-228), so the second test agrees.
ClearGpuMemory(dev, cache) == IF dev = "cuda" THEN "cleared" ELSE cache

\* The finally clause of transcribe_audio_file (lines 424-431), then the
\* return to transcribe_audio_to_text, which wraps an exception in a
\* RuntimeError (lines 727-733) and hands over to main().
Finally ==
  /\ pc = "finally"
  /\ \E rmtree_ok \in BOOLEAN :
       LET after == cleanup_temp_files(temp_dir, rmtree_ok)
       IN  /\ temp_dir' = after.temp_dir
           /\ rmtree_called' = after.rmtree_called
           /\ gpu_cache' = IF after.raised THEN gpu_cache
                           ELSE ClearGpuMemory(device, gpu_cache)
           /\ exc' = IF exc = "none" /\ ~after.raised
                     THEN "none" ELSE "RuntimeError"
           /\ pc' = IF exc = "none" /\ ~after.raised
                    THEN "processed" ELSE "except"
  /\ UNCHANGED <<unitVars, batchVars, countVars, diskVars, mediaVars, device, model,
                 load_calls, audio_present, plan_total_duration, chunk_duration,
                 total_duration, start_time, chunk_files, extract_failed,
                 chunkVars, textVars, outcome>>

Next ==
  \/ CheckWhisper
  \/ NextFile
  \/ Summary
  \/ AudioConversion
  \/ TextConversion
  \/ TextStep
  \/ FileSucceeded
  \/ FileFailed
  \/ SecondLoopCounters
  \/ SecondLoopFile
  \/ SecondSummary
  \/ TranscribeAudioToText
  \/ SplitAudioFile
  \/ ExtractChunk
  \/ SplitReturn
  \/ ComputeOffsetStep
  \/ LoadModel
  \/ TranscribeChunk
  \/ MergeAndWrite
  \/ Finally

Spec == Init /\ [][Next]_vars

\* ------------------------------------------- one AudioSplitter on its own
\* The batch is not running while a single object is exercised.
BatchIdle ==
  /\ WHISPER_AVAILABLE = TRUE
  /\ workflow_type = "text-only"
  /\ format_choice = "None"
  /\ keep_intermediate = FALSE
  /\ total_files = 1
  /\ file_index = 0
  /\ successful_conversions = 0
  /\ failed_conversions = 0
  /\ counted = [i \in 1..total_files |-> 0]
  /\ input_exists = TRUE

\* AudioSplitter.__init__ (lines 93-100): temp_dir is None.
SplitterInit ==
  /\ UnitsIdle
  /\ BatchIdle
  /\ FileIdle
  /\ pc = "splitter"

\* split_audio_file line 144: tempfile.mkdtemp makes a workspace, the first
\* one or a new one after the previous one is gone.
MakeWorkspace ==
  /\ pc = "splitter"
  /\ temp_dir # "exists"
  /\ temp_dir' = "exists"
  /\ UNCHANGED <<unitVars, batchVars, countVars, diskVars, mediaVars,
                 engineVars, audio_present, rmtree_called,
                 plan_total_duration, chunk_duration, total_duration,
                 start_time, chunk_files, extract_failed, chunkVars, textVars,
                 pc, outcome, exc>>

\* The workspace is deleted by something other than the splitter.
WorkspaceVanishes ==
  /\ pc = "splitter"
  /\ temp_dir = "exists"
  /\ temp_dir' = "removed"
  /\ UNCHANGED <<unitVars, batchVars, countVars, diskVars, mediaVars,
                 engineVars, audio_present, rmtree_called,
                 plan_total_duration, chunk_duration, total_duration,
                 start_time, chunk_files, extract_failed, chunkVars, textVars,
                 pc, outcome, exc>>

\* One call of cleanup_temp_files (lines 197-204).
CallCleanup ==
  /\ pc = "splitter"
  /\ Len(cleanup_log) < MaxCleanupCalls
  /\ \E rmtree_ok \in BOOLEAN :
       LET after == cleanup_temp_files(temp_dir, rmtree_ok)
       IN  /\ temp_dir' = after.temp_dir
           /\ rmtree_called' = after.rmtree_called
           /\ exc' = IF after.raised THEN "Exception" ELSE exc
           /\ cleanup_log' = Append(cleanup_log,
                                [before |-> temp_dir,
                                 after |-> after.temp_dir,
                                 rmtree_called |-> after.rmtree_called,
                                 warned |-> after.warned,
                                 raised |-> after.raised])
  /\ UNCHANGED <<trackerVars, batchVars, countVars, diskVars, mediaVars,
                 engineVars, audio_present, plan_total_duration,
                 chunk_duration, total_duration, start_time, chunk_files,
                 extract_failed, chunkVars, textVars, pc, outcome>>

SplitterNext ==
  \/ MakeWorkspace
  \/ WorkspaceVanishes
  \/ CallCleanup

SplitterSpec == SplitterInit /\ [][SplitterNext]_vars

\* ------------------------------- one monitored FFmpeg operation on its own
\* Durations (seconds) ffprobe reports for the input videos.
VideoDurations == {10, 100}

\* Lines of FFmpeg output: one without a time, and lines "time=H:M:S.ss".
ProgressLines ==
  { [matches |-> FALSE, hours |-> 0, minutes |-> 0, seconds |-> RZero] }
  \cup { [matches |-> TRUE, hours |-> 0, minutes |-> m, seconds |-> sec] :
           m \in {0}, sec \in {RZero, Rat(1, 2), RInt(1), RInt(5),
                                Rat(199, 2)} }
  \cup { [matches |-> TRUE, hours |-> 0, minutes |-> 1, seconds |-> RZero] }

\* A probe that answers the duration even when both queries failed.
get_video_duration_always_answers(structured_ok, fallback_ok, d) == RInt(d)

\* get_video_duration (lines 54-68): the structured query, then the ffprobe
\* subprocess, then 0; both except clauses are bare, nothing is raised.
get_video_duration(structured_ok, fallback_ok, d) ==
  IF structured_ok THEN RInt(d)
  ELSE IF fallback_ok THEN RInt(d)
  ELSE RZero

\* How the answer was obtained.
ProbeOutcome(structured_ok, fallback_ok) ==
  IF structured_ok THEN "structured"
  ELSE IF fallback_ok THEN "fallback"
  ELSE "failed"

\* parse_progress without the clamp to 100.
parse_progress_unclamped(line, duration, current_time, percentage) ==
  IF ~line.matches
  THEN [current_time |-> current_time, progress_percentage |-> percentage]
  ELSE LET t == RAdd(RAdd(RInt(line.hours * 3600), RInt(line.minutes * 60)),
                     line.seconds)
       IN  [current_time |-> t,
            progress_percentage |->
              IF RLt(RZero, duration)
              THEN RMul(RDiv(t, duration), RInt(100))
              ELSE percentage]

\* parse_progress (lines 70-81): the tracker's current_time and
\* progress_percentage after the line.
parse_progress(line, duration, current_time, percentage) ==
  IF ~line.matches
  THEN [current_time |-> current_time, progress_percentage |-> percentage]
  ELSE LET t == RAdd(RAdd(RInt(line.hours * 3600), RInt(line.minutes * 60)),
                     line.seconds)
       IN  [current_time |-> t,
            progress_percentage |->
              IF RLt(RZero, duration)
              THEN RMin(RInt(100), RMul(RDiv(t, duration), RInt(100)))
              ELSE percentage]

\* A render test that lets every line through.
ShouldRenderAlways(current_percentage, last) == TRUE

\* Line 470: "Update progress bar every 1%".
ShouldRender(current_percentage, last) ==
  RLe(RInt(1), RAbsDiff(current_percentage, last))

\* A percentage that stays what the previous operation left.
ResetPercentageSkipped(previous) == previous

\* Line 449: progress_percentage = 0.
ResetPercentage(previous) == RZero

\* The one ProgressTracker of the AudioConverter (line 441) before the first
\* of the monitored operations, one for each file of an M4A-only batch.
ProgressInit ==
  /\ UnitsIdle
  /\ WHISPER_AVAILABLE = TRUE
  /\ workflow_type = "audio-only"
  /\ format_choice = "m4a"
  /\ keep_intermediate = FALSE
  /\ total_files = MaxFiles
  /\ file_index = 0
  /\ successful_conversions = 0
  /\ failed_conversions = 0
  /\ counted = [i \in 1..total_files |-> 0]
  /\ input_exists = TRUE
  /\ FileIdle
  /\ pc = "ffmpeg_start"

\* _run_ffmpeg_with_progress lines 445-461: probe the duration, reset the
\* tracker, start the process.  A Popen that raises goes to the except branch
\* (return False) and the finally clause.
\* The input of this operation has the true duration d.
StartFfmpeg ==
  /\ pc = "ffmpeg_start"
  /\ \E structured_ok \in BOOLEAN, fallback_ok \in BOOLEAN,
        d \in VideoDurations, popen_ok \in BOOLEAN :
       /\ audio_duration' = d
       /\ tracker_duration' = get_video_duration(structured_ok, fallback_ok, d)
       /\ probe' = ProbeOutcome(structured_ok, fallback_ok)
       /\ is_running' = popen_ok
       /\ pc' = IF popen_ok THEN "monitor" ELSE "ffmpeg_false"
  /\ tracker_current_time' = RZero
  /\ progress_percentage' = ResetPercentage(progress_percentage)
  /\ last_percentage' = RZero
  /\ UNCHANGED <<cleanup_log, shown, parse_log, batchVars, countVars, diskVars,
                 audio_size_mb,
                 engineVars, splitVars, chunkVars, textVars, outcome, exc>>

\* One iteration of the monitoring loop (lines 465-472).
ReadLine ==
  /\ pc = "monitor"
  /\ Len(parse_log) < MaxLines
  /\ \E line \in ProgressLines :
       LET after == parse_progress(line, tracker_duration,
                                   tracker_current_time, progress_percentage)
           current_percentage == after.progress_percentage
           render == ShouldRender(current_percentage, last_percentage)
       IN  /\ tracker_current_time' = after.current_time
           /\ progress_percentage' = current_percentage
           /\ parse_log' = Append(parse_log,
                              [time |-> after.current_time,
                               percentage |-> current_percentage])
           /\ shown' = IF render
                       THEN Append(shown, [percentage |-> current_percentage,
                                           last |-> last_percentage,
                                           final |-> FALSE])
                       ELSE shown
           /\ last_percentage' = IF render THEN current_percentage
                                 ELSE last_percentage
  /\ UNCHANGED <<cleanup_log, tracker_duration, is_running, probe, batchVars,
                 countVars, diskVars, mediaVars, engineVars, splitVars,
                 chunkVars, textVars, pc, outcome, exc>>

\* The process ends (lines 474-489): on return code 0 the bar is shown at
\* 100 and True is returned, otherwise False; finally is_running is reset.
ProcessExit ==
  /\ pc = "monitor"
  /\ \E returncode_zero \in BOOLEAN :
       /\ shown' = IF returncode_zero
                   THEN Append(shown, [percentage |-> RInt(100),
                                       last |-> last_percentage,
                                       final |-> TRUE])
                   ELSE shown
       /\ pc' = IF returncode_zero THEN "ffmpeg_true" ELSE "ffmpeg_false"
  /\ is_running' = FALSE
  /\ UNCHANGED <<cleanup_log, tracker_duration, tracker_current_time,
                 progress_percentage, last_percentage, probe, parse_log,
                 batchVars, countVars, diskVars, mediaVars, engineVars,
                 splitVars, chunkVars, textVars, outcome, exc>>

\* _run_ffmpeg_with_progress has returned and the conversion of the next
\* file is about to call it again (main, line 1149 inside the loop of line
\* 1120).  The tracker is as the last operation left it; the logs of lines
\* parsed and bars shown start again with each operation.
NextOperation ==
  /\ pc \in {"ffmpeg_true", "ffmpeg_false"}
  /\ file_index + 1 < total_files
  /\ file_index' = file_index + 1
  /\ shown' = <<>>
  /\ parse_log' = <<>>
  /\ pc' = "ffmpeg_start"
  /\ UNCHANGED <<cleanup_log, tracker_duration, tracker_current_time,
                 progress_percentage, is_running, last_percentage, probe,
                 batchVars, successful_conversions, failed_conversions, counted,
                 diskVars, mediaVars, engineVars, splitVars, chunkVars,
                 textVars, outcome, exc>>

ProgressNext ==
  \/ StartFfmpeg
  \/ ReadLine
  \/ ProcessExit
  \/ NextOperation

ProgressSpec == ProgressInit /\ [][ProgressNext]_vars

\* --------------------------------------------- merge_transcripts on its own
\* Chunk texts a result may carry: none, blank, and texts with and without
\* surrounding blanks.
ChunkTexts ==
  { <<>>, <<" ">>, <<"a">>, <<"b", " ">>, <<" ", "c", "d">> }

\* The lists of up to MaxResults chunk results.
ResultLists ==
  UNION { [1..n -> [text : ChunkTexts, segments : {<<>>}]] : n \in 0..MaxResults }

MergeInit ==
  /\ UnitsIdle
  /\ BatchIdle
  /\ \E list \in ResultLists :
       /\ results = list
       /\ outcome = "none"
       /\ exc = "none"
       /\ audio_file = "None"
       /\ remove_called = FALSE
       /\ m4a_exists = FALSE
       /\ mp3_exists = FALSE
       /\ audio_duration = 0
       /\ audio_size_mb = 0
       /\ audio_present = FALSE
       /\ device = "cpu"
       /\ model = "None"
       /\ gpu_cache = "empty"
       /\ load_calls = 0
       /\ temp_dir = "None"
       /\ rmtree_called = FALSE
       /\ plan_total_duration = RZero
       /\ chunk_duration = RZero
       /\ total_duration = RZero
       /\ start_time = RZero
       /\ chunk_files = <<>>
       /\ extract_failed = FALSE
       /\ offset_step = RZero
       /\ chunk_calls = <<>>
       /\ text_written = FALSE
       /\ final_transcript = <<>>
  /\ pc = "merge"

\* transcribe_audio_file line 410: final_transcript = merge_transcripts(...).
MergeTranscripts ==
  /\ pc = "merge"
  /\ final_transcript' = merge_transcripts(results)
  /\ pc' = "merged"
  /\ UNCHANGED <<unitVars, batchVars, countVars, diskVars, mediaVars,
                 engineVars, splitVars, chunkVars, text_written, outcome, exc>>

MergeNext == MergeTranscripts

MergeSpec == MergeInit /\ [][MergeNext]_vars

\* ================================================================== claims
\* split_audio_file has returned its list to transcribe_audio_file.
SplitReturned == pc \in {"probe", "load", "chunks"}

\* split_audio_file has planned and is in its loop or has returned.
SplitPlanned == pc \in {"split_loop", "probe", "load", "chunks"}

\* transcribe_audio_file has returned or raised to its caller.
TranscriptionExited ==
  pc \in {"processed", "except", "next_file", "done", "again_next", "returned"}

\* merge_transcripts has run for the current file.
Merged == model = "loaded" /\ pc # "chunks"

\* needle occurs in hay as a contiguous run.
Contains(hay, needle) ==
  \E i \in 0..(Len(hay) - Len(needle)) :
    SubSeq(hay, i + 1, i + Len(needle)) = needle

\* An inline error marker that names chunk number n.
MarkerNumbered(n, reason) ==
  <<"[Error transcribing chunk ">> \o Decimal(n) \o <<": ">> \o reason
    \o <<"]">>

\* The intervals of chunks partition [0, duration).
Partitions(chunks, duration) ==
  /\ Len(chunks) >= 1
  /\ chunks[1].start = RZero
  /\ \A k \in 1..(Len(chunks) - 1) : chunks[k + 1].start = chunks[k].end
  /\ chunks[Len(chunks)].end = RInt(duration)

\* C1: the list of chunks split_audio_file returns partitions [0, D): it holds
\* at least one chunk, chunk 0 starts at 0, each chunk starts where the
\* previous one ends, and the last chunk ends at D.
C1_ReturnedChunksPartitionDuration ==
  SplitReturned => Partitions(chunk_files, audio_duration)

\* C2: a file no larger than the ceiling never enters the extraction loop and
\* is returned as exactly one chunk covering its whole duration.
C2_SmallFileIsOneChunk ==
  (SplitPlanned /\ audio_present /\ audio_size_mb <= DefaultMaxChunkSizeMB)
    => /\ pc # "split_loop"
       /\ chunk_files = <<[start |-> RZero, end |-> RInt(audio_duration)]>>

\* The 60-minute file at three times the ceiling, as the planner and the
\* splitter see it.
SixtyMinutesAtThreeTimesCeiling ==
  /\ temp_dir # "None"
  /\ audio_present
  /\ audio_size_mb = 3 * DefaultMaxChunkSizeMB
  /\ plan_total_duration = RInt(3600)
  /\ total_duration = RInt(3600)

EighteenMinuteChunks ==
  << [start |-> RInt(0), end |-> RInt(1080)],
     [start |-> RInt(1080), end |-> RInt(2160)],
     [start |-> RInt(2160), end |-> RInt(3240)],
     [start |-> RInt(3240), end |-> RInt(3600)] >>

\* C3: for a file above the ceiling the planned chunk duration is
\* max(60, (D / (size / ceiling)) * 0.9), D being the duration the planner
\* probed (stated here in whole numbers, both sides multiplied by
\* 10 * size); and the 60-minute file at three times the ceiling is planned
\* at 18 minutes, its chunks are taken in order from 0-18, 18-36, 36-54 and
\* 54-60 minutes, and all four and no more are there once the loop has run
\* to its end.
C3_ChunkDurationFormula ==
  /\ (temp_dir # "None" /\ audio_present
        /\ audio_size_mb > DefaultMaxChunkSizeMB)
       => LET scaled == 9 * plan_total_duration[1] * DefaultMaxChunkSizeMB
              floor == MinChunkSeconds * 10 * audio_size_mb
                         * plan_total_duration[2]
          IN  chunk_duration[1] * 10 * audio_size_mb * plan_total_duration[2]
                = chunk_duration[2]
                    * (IF scaled >= floor THEN scaled ELSE floor)
  /\ SixtyMinutesAtThreeTimesCeiling
       => /\ chunk_duration = RInt(18 * 60)
          /\ Len(chunk_files) <= 4
          /\ chunk_files = SubSeq(EighteenMinuteChunks, 1, Len(chunk_files))
          /\ (pc # "split_loop" /\ ~extract_failed) => Len(chunk_files) = 4

C3_Witness ==
  /\ SixtyMinutesAtThreeTimesCeiling
  /\ SplitReturned
  /\ ~extract_failed
  /\ Len(chunk_files) = 4
  /\ RLt(RSub(chunk_files[4].end, chunk_files[4].start), chunk_duration)

\* C4: the planned chunk duration is at least 60 seconds, unless the total
\* duration (as the planner probed it) is below 60 seconds, and then exactly
\* one chunk covering the whole file is produced and no loop is entered.
C4_ChunkDurationFloor ==
  (SplitPlanned /\ audio_present)
    => \/ RLe(RInt(MinChunkSeconds), chunk_duration)
       \/ /\ RLt(plan_total_duration, RInt(MinChunkSeconds))
          /\ pc # "split_loop"
          /\ chunk_files = <<[start |-> RZero, end |-> RInt(audio_duration)]>>

\* Every duration probe of the planner and the splitter answered the true
\* duration and no extraction failed: the chunks are the planned ones.
PlannedChunksMade ==
  /\ plan_total_duration = RInt(audio_duration)
  /\ total_duration = RInt(audio_duration)
  /\ ~extract_failed

\* C5: for every chunk i of a multi-chunk file (split as planned), the offset
\* added to the segments of chunk i is the start offset at which the
\* splitter cut chunk i.
C5_OffsetIsChunkStart ==
  (PlannedChunksMade /\ Len(chunk_files) > 1)
    => \A k \in 1..Len(chunk_calls) :
         chunk_calls[k].start_time = chunk_files[k].start

\* C6: with chunk-local timestamps inside [0, length of the chunk], no
\* segment ends after the total duration D once its offset is added.
C6_SegmentEndsWithinDuration ==
  \A k \in 1..Len(results) :
    \A j \in 1..Len(results[k].segments) :
      RLe(results[k].segments[j].end, RInt(audio_duration))

C6_Witness ==
  /\ Len(results) >= 3
  /\ Len(results) = Len(chunk_files)
  /\ \A k \in 1..Len(results) : results[k].segments # <<>>
  /\ RLt(RZero, chunk_calls[3].start_time)
  /\ RLt(chunk_calls[3].start_time, results[3].segments[1].end)

\* C7: when an extraction fails (in a file whose probes answered its true
\* duration), no later chunk is extracted, the chunks made so far are
\* returned, and the failure is surfaced as an error, so the file is counted
\* as failed, never as a success.
C7_ExtractionFailureFailsFile ==
  (extract_failed /\ plan_total_duration = RInt(audio_duration)
     /\ total_duration = RInt(audio_duration))
    => (pc # "split_loop" /\ outcome # "success")

\* C8 (as stated): the merged transcript of a multi-chunk file holds, for
\* every chunk the backend failed on, an error marker embedding that chunk's
\* index.
C8_MarkerEmbedsChunkIndex ==
  (Merged /\ PlannedChunksMade /\ Len(chunk_files) > 1) =>
    \A k \in 1..Len(chunk_calls) :
      chunk_calls[k].failed =>
        \E reason \in BackendReasons :
          Contains(final_transcript, MarkerNumbered(k - 1, reason))

\* C8 (amended): a backend failure on one chunk does not stop the others:
\* every chunk gets a result, the merged transcript holds the text of the
\* chunks that succeeded and, for each failed chunk, an error marker with
\* that chunk's 1-based number (index + 1) and the reason, and the file is
\* counted as a success once the artifact is written.
C8_ChunkFailureIsolated ==
  Merged =>
    /\ Len(results) = Len(chunk_files)
    /\ \A k \in 1..Len(chunk_calls) :
         IF chunk_calls[k].failed
         THEN \E reason \in BackendReasons :
                Contains(final_transcript, MarkerNumbered(k, reason))
         ELSE Contains(final_transcript, results[k].text)
    /\ (text_written /\ outcome # "none") => outcome = "success"

C8_Witness ==
  /\ Merged
  /\ Len(chunk_calls) = 3
  /\ ~chunk_calls[1].failed /\ chunk_calls[2].failed /\ ~chunk_calls[3].failed
  /\ results[1].text = <<"h", "i">>
  /\ results[3].text = <<"h", "i">>
  /\ outcome = "success"

\* C9: on every exit of transcribe_audio_file, by return or by exception,
\* the workspace the splitter made is removed, or shutil.rmtree was called on
\* it, before the caller continues.
C9_WorkspaceCleanedOnEveryExit ==
  TranscriptionExited => (temp_dir # "exists" \/ rmtree_called)

C9_Witness ==
  /\ pc = "except"
  /\ model = "loaded"
  /\ ~text_written
  /\ temp_dir = "removed"

\* C10: once a text-only file has finished, as a success or as a failure,
\* the audio file extracted for its transcription is gone, or os.remove was
\* called on it.
C10_TextOnlyAudioCleanedUp ==
  (workflow_type = "text-only" /\ outcome # "none" /\ audio_file = "m4a")
    => (~m4a_exists \/ remove_called)

\* C11 (as stated): no call of cleanup_temp_files raises, and after every
\* call the workspace is absent.
C11_CleanupLeavesWorkspaceAbsent ==
  \A k \in 1..Len(cleanup_log) :
    /\ ~cleanup_log[k].raised
    /\ cleanup_log[k].after # "exists"

\* C11 (amended): no call of cleanup_temp_files raises; a call that finds no
\* workspace (never created, or already absent) does nothing; a call that
\* finds one leaves it absent when shutil.rmtree succeeds and in place, with
\* a warning, when shutil.rmtree fails; and a call that follows a call which
\* left the workspace absent changes nothing.
C11_CleanupIdempotent ==
  /\ exc = "none"
  /\ \A k \in 1..Len(cleanup_log) :
       LET c == cleanup_log[k]
       IN  /\ ~c.raised
           /\ c.before # "exists"
                => (c.after = c.before /\ ~c.rmtree_called /\ ~c.warned)
           /\ c.before = "exists"
                => (c.rmtree_called /\ (c.after = "removed" <=> ~c.warned)
                      /\ (c.after = "exists" <=> c.warned))
  /\ \A k \in 1..(Len(cleanup_log) - 1) :
       (cleanup_log[k].after = "removed"
          /\ cleanup_log[k + 1].before = "removed")
         => (cleanup_log[k + 1].after = "removed"
               /\ ~cleanup_log[k + 1].rmtree_called)

\* Twice in a row on a workspace that exists, and once more.
C11_Witness ==
  /\ pc = "splitter"
  /\ Len(cleanup_log) >= 3
  /\ cleanup_log[1].before = "exists" /\ cleanup_log[1].after = "removed"
  /\ cleanup_log[2].before = "removed" /\ cleanup_log[2].after = "removed"
  /\ cleanup_log[3].after = "removed"

\* C12: an exception raised while a file is processed is caught at the
\* batch loop: the step that handles it adds one to the failure counter,
\* leaves the success counter alone and returns to the loop, which takes the
\* next file if there is one; between files the two counters add up to the
\* number of files taken so far, and to the number of input files once the
\* loop has ended.
C12_FailuresCountedBatchContinues ==
  /\ [][pc = "except"
         => /\ failed_conversions' = failed_conversions + 1
            /\ successful_conversions' = successful_conversions
            /\ pc' = "next_file"]_vars
  /\ [](pc \in {"next_file", "done"}
         => successful_conversions + failed_conversions = file_index)
  /\ []((pc = "next_file" /\ file_index < total_files) => ENABLED NextFile)
  /\ [](pc = "done"
         => successful_conversions + failed_conversions = total_files)

\* The first file failed, the loop went on and the second one succeeded.
C12_Witness ==
  /\ pc = "done"
  /\ total_files = 2
  /\ failed_conversions = 1
  /\ successful_conversions = 1
  /\ outcome = "success"

\* main() has returned: at the Whisper check (line 1108) or at its end,
\* after the second summary (line 1349).
MainReturned == pc \in {"aborted", "returned"}

\* The summary with the success and failure counts (lines 1212-1220) has
\* been printed.
TallyReported == pc \in {"done", "again_next", "returned"}

\* C13: a batch run with at least one input file ends only after its final
\* success/failure tally has been reported.
C13_RunEndsWithTally ==
  (total_files >= 1 /\ MainReturned) => TallyReported

\* C14: after any lines at all the percentage lies in [0, 100], and over the
\* parse_progress calls of one operation a later call whose elapsed time is
\* not smaller has a percentage that is not smaller.
C14_PercentageMonotoneAndClamped ==
  /\ RLe(RZero, progress_percentage)
  /\ RLe(progress_percentage, RInt(100))
  /\ \A k \in 1..Len(parse_log) :
       /\ RLe(RZero, parse_log[k].percentage)
       /\ RLe(parse_log[k].percentage, RInt(100))
  /\ \A j \in 1..Len(parse_log) : \A k \in j..Len(parse_log) :
       RLe(parse_log[j].time, parse_log[k].time)
         => RLe(parse_log[j].percentage, parse_log[k].percentage)

\* Increasing elapsed times up to twice the duration: the percentage rises
\* and stops at 100.
C14_Witness ==
  /\ tracker_duration = RInt(10)
  /\ Len(parse_log) = 3
  /\ RLt(parse_log[1].time, parse_log[2].time)
  /\ RLt(parse_log[2].time, parse_log[3].time)
  /\ RLt(parse_log[1].percentage, parse_log[2].percentage)
  /\ parse_log[3].time = RInt(60)
  /\ parse_log[3].percentage = RInt(100)

\* C15 (as stated): every call of show_progress_bar of a monitored
\* operation shows a percentage at least 1 point away from the percentage of
\* the last render.
C15_EveryRenderMovedOnePoint ==
  \A k \in 1..Len(shown) :
    RLe(RInt(1), RAbsDiff(shown[k].percentage, shown[k].last))

\* C15 (amended): inside the monitoring loop the bar is rendered only when
\* the percentage is at least 1 point away from the percentage of the last
\* render (0 before the first render), and every line that far away is
\* rendered; after the loop, when the process ended with return code 0, the
\* bar is rendered once more at 100 whatever the last render showed.
C15_RenderOnlyAfterOnePoint ==
  /\ \A k \in 1..Len(shown) :
       /\ shown[k].last = IF k = 1 THEN RZero ELSE shown[k - 1].percentage
       /\ IF shown[k].final
          THEN /\ k = Len(shown)
               /\ pc = "ffmpeg_true"
               /\ shown[k].percentage = RInt(100)
          ELSE RLe(RInt(1), RAbsDiff(shown[k].percentage, shown[k].last))
  /\ pc = "monitor"
       => /\ last_percentage = IF shown = <<>> THEN RZero
                               ELSE shown[Len(shown)].percentage
          /\ RLt(RAbsDiff(progress_percentage, last_percentage), RInt(1))
  /\ pc = "ffmpeg_true" => (shown # <<>> /\ shown[Len(shown)].final)

\* A line at 0.5 % was read and not rendered, the lines at 1 % and 5 % were.
C15_Witness ==
  /\ pc = "monitor"
  /\ Len(parse_log) = 3
  /\ parse_log[1].percentage = Rat(1, 2)
  /\ Len(shown) = 2
  /\ shown[1].percentage = RInt(1)
  /\ shown[2].percentage = RInt(5)

\* C16: the duration probes raise nothing; when both queries of
\* get_video_duration fail it answers 0, the operation is run all the same
\* and the percentage stays at 0 for every line read; get_audio_duration
\* answers 0 in the same way.
C16_FailedProbeHoldsPercentageAtZero ==
  /\ exc = "none"
  /\ probe = "failed"
       => /\ tracker_duration = RZero
          /\ progress_percentage = RZero
          /\ \A k \in 1..Len(parse_log) : parse_log[k].percentage = RZero
          /\ \A k \in 1..Len(shown) : shown[k].final
  /\ (probe = "failed" /\ is_running) => pc = "monitor"
  /\ \A d \in Durations : get_audio_duration(TRUE, d, FALSE) = RZero

\* Both queries failed, the operation ran to return code 0 and its lines,
\* with elapsed times in them, were parsed.
C16_Witness ==
  /\ probe = "failed"
  /\ pc = "ffmpeg_true"
  /\ Len(parse_log) = MaxLines
  /\ RLt(RZero, tracker_current_time)
  /\ progress_percentage = RZero

\* C17: within one file's transcription whisper.load_model is called at most
\* once, no chunk is transcribed while the model is unloaded, and the chunks
\* after the first are transcribed without another load.
C17_ModelLoadedOnceBeforeChunks ==
  /\ load_calls <= 1
  /\ pc = "chunks" => model = "loaded"
  /\ Len(results) > 0 => (model = "loaded" /\ load_calls = 1)

C17_Witness ==
  /\ pc = "chunks"
  /\ Len(results) = 3
  /\ load_calls = 1
  /\ model = "loaded"

\* C18: once the transcription of a file that ran on the accelerator has
\* ended, by return or by exception, and before the next file is taken,
\* torch.cuda.empty_cache() has been called: no accelerator memory used for
\* the file is left unreleased.
C18_AcceleratorReleasedAfterFile ==
  TranscriptionExited
    => /\ gpu_cache # "used"
       /\ device = "cuda" => gpu_cache = "cleared"

\* The model was loaded on the GPU and the transcription then failed.
C18_Witness ==
  /\ pc = "except"
  /\ device = "cuda"
  /\ model = "loaded"
  /\ exc = "RuntimeError"
  /\ gpu_cache = "cleared"

\* C19: for each file the steps run in the order extract audio, split,
\* transcribe all chunks, merge, write the artifact, clean up: splitting and
\* everything after it run on an extracted audio file, no chunk has a result
\* before split_audio_file has returned, the artifact is written only when
\* every returned chunk has a result and holds the merge of these results,
\* and the workspace is cleaned up only after the write.
C19_PipelineStepsInOrder ==
  /\ pc \in {"split", "split_loop", "probe", "load", "chunks", "finally"}
       => audio_file # "None"
  /\ pc \in {"split", "split_loop"} => (results = <<>> /\ ~text_written)
  /\ pc \in {"probe", "load", "chunks"}
       => (~text_written /\ ~rmtree_called /\ temp_dir = "exists")
  /\ text_written
       => /\ Len(results) = Len(chunk_files)
          /\ final_transcript = merge_transcripts(results)
          /\ pc = "finally" \/ TranscriptionExited
  /\ pc = "finally" => (~rmtree_called /\ temp_dir # "removed")
  /\ (rmtree_called \/ temp_dir = "removed") => TranscriptionExited

\* Three chunks transcribed, the artifact written, the workspace removed.
C19_Witness ==
  /\ pc = "processed"
  /\ Len(chunk_files) = 3
  /\ Len(results) = 3
  /\ text_written
  /\ rmtree_called
  /\ temp_dir = "removed"

\* The texts of the chunks that are not blank, stripped, in chunk order.
NonBlankTexts(res) ==
  SelectSeq([k \in 1..Len(res) |-> Strip(res[k].text)],
            LAMBDA t : t # <<>>)

\* texts one after the other with sep between two neighbours.
RECURSIVE Interleave(_, _)
Interleave(texts, sep) ==
  IF texts = <<>> THEN <<>>
  ELSE IF Len(texts) = 1 THEN texts[1]
  ELSE texts[1] \o sep \o Interleave(Tail(texts), sep)

\* C20: for any list of chunk results the merged text is the non-blank chunk
\* texts in the order of their chunk indices, with the separator (a newline
\* between two blanks) between each two of them and nothing before the
\* first or after the last.
C20_MergeKeepsChunkOrder ==
  pc = "merged"
    => final_transcript
         = Interleave(NonBlankTexts(results), <<" ", "\n", " ">>)

\* Three results, the middle one blank: the first and the last text, in
\* that order, with one separator.
C20_Witness ==
  /\ pc = "merged"
  /\ Len(results) = 3
  /\ results[1].text = <<"b", " ">>
  /\ results[2].text = <<" ">>
  /\ results[3].text = <<" ", "c", "d">>
  /\ final_transcript = <<"b", " ", "\n", " ", "c", "d">>

\* C21: a failure to remove the temporary workspace or the intermediate
\* audio file is a warning only.  The finally clause hands an exception on
\* exactly when one was already in flight, whatever shutil.rmtree did; every
\* step that calls os.remove on the intermediate audio goes on as if the
\* removal had worked, and the step after a finished transcription counts
\* the file as a success; a file whose workspace or audio could not be
\* removed, and whose transcript was written, is never counted as failed.
C21_CleanupFailureIsOnlyAWarning ==
  /\ [][pc = "finally"
         => /\ (exc = "none") <=> (exc' = "none")
            /\ pc' = IF exc = "none" THEN "processed" ELSE "except"]_vars
  /\ [][pc = "processed"
         => /\ pc' = "next_file"
            /\ outcome' = "success"
            /\ successful_conversions' = successful_conversions + 1
            /\ failed_conversions' = failed_conversions]_vars
  /\ [][(pc = "step1" /\ remove_called')
         => (pc' = "step2" /\ exc' = "none")]_vars
  /\ [][(pc = "again_next" /\ remove_called')
         => (outcome' = "success" /\ exc' = "none")]_vars
  /\ []((text_written /\ outcome # "none"
         /\ ((rmtree_called /\ temp_dir = "exists")
             \/ (remove_called /\ m4a_exists)))
        => (outcome = "success" /\ exc = "none"))

\* A text-only file whose workspace and whose temporary audio both could
\* not be removed has been counted as a success.
C21_Witness ==
  /\ workflow_type = "text-only"
  /\ pc = "next_file"
  /\ outcome = "success"
  /\ text_written
  /\ rmtree_called /\ temp_dir = "exists"
  /\ remove_called /\ m4a_exists
  /\ successful_conversions = 1 /\ failed_conversions = 0

\* C22: when the audio-extraction process exits with a non-zero code,
\* mp4_to_m4a raises RuntimeError whether or not an output file was left
\* behind; a file whose conversion raised RuntimeError before any audio file
\* was handed on is in the exception handler or already counted as failed,
\* and nothing of the transcription ran for it: no workspace, no chunk
\* file, no model load, no transcribe_chunk call, no transcript.
C22_ExtractionFailureFailsFile ==
  /\ \A output_exists \in BOOLEAN :
       mp4_to_m4a(TRUE, FALSE, output_exists) = "RuntimeError"
  /\ (exc = "RuntimeError" /\ audio_file = "None")
       => /\ pc \in {"except", "next_file", "done", "again_next", "returned"}
          /\ pc # "except" => outcome = "failed"
          /\ temp_dir = "None"
          /\ chunk_files = <<>>
          /\ load_calls = 0
          /\ chunk_calls = <<>>
          /\ results = <<>>
          /\ ~text_written

\* The extraction of a text-only file failed although its input exists, and
\* the file has been counted as failed.
C22_Witness ==
  /\ workflow_type = "text-only"
  /\ input_exists
  /\ exc = "RuntimeError" /\ audio_file = "None"
  /\ pc = "next_file"
  /\ outcome = "failed"
  /\ failed_conversions = 1 /\ successful_conversions = 0

\* The four functions called on an input that is not there.
MissingInputRaises(whisper_available) ==
  { mp4_to_m4a(FALSE, s, o) : s \in BOOLEAN, o \in BOOLEAN }
  \cup { m4a_to_mp3(FALSE, s, o) : s \in BOOLEAN, o \in BOOLEAN }
  \cup { convert_mp4_to_mp3_direct(FALSE, s, o) : s \in BOOLEAN, o \in BOOLEAN }
  \cup { transcribe_audio_to_text_checks(whisper_available, FALSE) }

\* A missing input left no trace of an external operation: no output of a
\* conversion, no workspace, no chunk, no model load, no transcript.
NothingStarted ==
  /\ audio_file = "None" => (~m4a_exists /\ ~mp3_exists)
  /\ temp_dir = "None"
  /\ chunk_files = <<>>
  /\ load_calls = 0
  /\ chunk_calls = <<>>
  /\ ~text_written

\* The file whose input is missing is in the exception handler or counted
\* as failed, and the other files of the batch are counted on their own.
OnlyThatFileFails ==
  /\ pc \in {"except", "next_file", "done"}
  /\ pc # "except"
       => /\ outcome = "failed"
          /\ successful_conversions + failed_conversions = file_index
          /\ \A i \in 1..file_index : counted[i] = 1

C24_BackendMissingStopsOnlyTextWorkflows ==
  /\ (~WHISPER_AVAILABLE /\ workflow_type \in TextWorkflows)
       => /\ pc \in {"check_whisper", "aborted"}
          /\ file_index = 0
          /\ \A i \in 1..total_files : counted[i] = 0
          /\ audio_file = "None" /\ ~m4a_exists /\ ~mp3_exists
          /\ load_calls = 0 /\ chunk_calls = <<>> /\ ~text_written
  /\ (~WHISPER_AVAILABLE /\ workflow_type = "audio-only")
       => /\ pc \notin {"aborted", "transcribe_audio_to_text", "split",
                         "split_loop", "probe", "load", "chunks", "finally"}
          /\ exc \in {"none", "FileNotFoundError"}
               \/ (exc = "RuntimeError" /\ audio_file = "None")
          /\ pc = "done"
               => /\ file_index = total_files
                  /\ successful_conversions + failed_conversions = total_files
                  /\ \A i \in 1..total_files : counted[i] = 1

\* An audio-only run of two files without Whisper converted both of them.
C24_Witness ==
  /\ ~WHISPER_AVAILABLE
  /\ workflow_type = "audio-only"
  /\ pc = "done"
  /\ total_files = 2
  /\ successful_conversions = 2
  /\ m4a_exists /\ mp3_exists

\* ------------------------------------------ convert_mp4_to_mp3 on its own
\* A handler that leaves the intermediate file where it is.
cleanup_on_error_skipped(exists, keep, remove_ok) ==
  [exists |-> exists, remove_called |-> FALSE]

\* The except clause of convert_mp4_to_mp3 (lines 633-639): os.remove when
\* the M4A file exists and is not to be kept; an OSError is swallowed.
cleanup_on_error(exists, keep, remove_ok) ==
  IF exists /\ ~keep
  THEN [exists |-> ~remove_ok, remove_called |-> TRUE]
  ELSE [exists |-> exists, remove_called |-> FALSE]

\* Line 640: raise e.
Reraise(e) == e

\* The file loop of src/source/engine/main.py with mp3_only set, before its
\* first file (lines 109-112): every file goes through convert_mp4_to_mp3.
ConvertInit ==
  /\ UnitsIdle
  /\ WHISPER_AVAILABLE = TRUE
  /\ workflow_type = "audio-only"
  /\ format_choice = "mp3"
  /\ keep_intermediate \in BOOLEAN
  /\ total_files \in 1..MaxFiles
  /\ file_index = 0
  /\ successful_conversions = 0
  /\ failed_conversions = 0
  /\ counted = [i \in 1..total_files |-> 0]
  /\ input_exists = TRUE
  /\ outcome = "none"
  /\ exc = "none"
  /\ audio_file = "None"
  /\ remove_called = FALSE
  /\ m4a_exists = FALSE
  /\ mp3_exists = FALSE
  /\ audio_duration = 0
  /\ audio_size_mb = 0
  /\ audio_present = FALSE
  /\ device = "cpu"
  /\ model = "None"
  /\ gpu_cache = "empty"
  /\ load_calls = 0
  /\ temp_dir = "None"
  /\ rmtree_called = FALSE
  /\ plan_total_duration = RZero
  /\ chunk_duration = RZero
  /\ total_duration = RZero
  /\ start_time = RZero
  /\ chunk_files = <<>>
  /\ extract_failed = FALSE
  /\ offset_step = RZero
  /\ results = <<>>
  /\ chunk_calls = <<>>
  /\ text_written = FALSE
  /\ final_transcript = <<>>
  /\ pc = "convert_next"

\* src/source/engine/main.py lines 113-129: the loop takes the next file
\* and calls convert_mp4_to_mp3 (lines 592-609 of the standalone script).
\* The input may be missing, and files with the names of the intermediate
\* M4A and of the MP3 may be there from an earlier run.
ConvertNextFile ==
  /\ pc = "convert_next"
  /\ file_index < total_files
  /\ file_index' = file_index + 1
  /\ input_exists' \in BOOLEAN
  /\ m4a_exists' \in BOOLEAN
  /\ mp3_exists' \in BOOLEAN
  /\ remove_called' = FALSE
  /\ outcome' = "none"
  /\ exc' = "none"
  /\ pc' = "convert_start"
  /\ UNCHANGED <<unitVars, batchVars, successful_conversions,
                 failed_conversions, counted, audio_file, mediaVars,
                 engineVars, splitVars, chunkVars, textVars>>

\* Lines 611-613: step 1, mp4_to_m4a into the intermediate file.
ConvertStep1 ==
  /\ pc = "convert_start"
  /\ \E s1 \in BOOLEAN, o1 \in BOOLEAN :
       LET r1 == mp4_to_m4a(input_exists, s1, o1)
       IN  /\ m4a_exists' = IF input_exists THEN o1 ELSE m4a_exists
           /\ exc' = IF r1 = "ok" THEN "none" ELSE r1
           /\ pc' = IF r1 = "ok" THEN "convert_step2" ELSE "convert_error"
  /\ UNCHANGED <<unitVars, batchVars, countVars, input_exists, audio_file,
                 remove_called, mp3_exists, mediaVars, engineVars, splitVars,
                 chunkVars, textVars, outcome>>

\* Lines 615-617: step 2, m4a_to_mp3 on the intermediate file, which is
\* still there or not.
ConvertStep2 ==
  /\ pc = "convert_step2"
  /\ \E there \in {m4a_exists, FALSE}, s2 \in BOOLEAN, o2 \in BOOLEAN :
       LET r3 == m4a_to_mp3(there, s2, o2)
       IN  /\ m4a_exists' = there
           /\ mp3_exists' = IF there THEN o2 ELSE mp3_exists
           /\ exc' = IF r3 = "ok" THEN "none" ELSE r3
           /\ pc' = IF r3 = "ok" THEN "convert_cleanup" ELSE "convert_error"
  /\ UNCHANGED <<unitVars, batchVars, countVars, input_exists, audio_file,
                 remove_called, mediaVars, engineVars, splitVars, chunkVars,
                 textVars, outcome>>

\* Lines 619-631: remove the intermediate file unless it is to be kept,
\* then return.
ConvertCleanup ==
  /\ pc = "convert_cleanup"
  /\ \E remove_ok \in BOOLEAN :
       LET rm == remove_intermediate(m4a_exists, remove_ok)
       IN  IF keep_intermediate
           THEN /\ pc' = "convert_returned"
                /\ outcome' = "success"
                /\ UNCHANGED <<m4a_exists, remove_called, exc>>
           ELSE /\ m4a_exists' = rm.exists
                /\ remove_called' = TRUE
                /\ exc' = IF rm.raised THEN "OSError" ELSE "none"
                /\ outcome' = IF rm.raised THEN outcome ELSE "success"
                /\ pc' = IF rm.raised THEN "convert_error"
                         ELSE "convert_returned"
  /\ UNCHANGED <<unitVars, batchVars, countVars, input_exists, audio_file,
                 mp3_exists, mediaVars, engineVars, splitVars, chunkVars,
                 textVars>>

\* Lines 633-640: the except clause, which cleans up and raises.
ConvertError ==
  /\ pc = "convert_error"
  /\ \E remove_ok \in BOOLEAN :
       LET c == cleanup_on_error(m4a_exists, keep_intermediate, remove_ok)
       IN  /\ m4a_exists' = c.exists
           /\ remove_called' = (remove_called \/ c.remove_called)
  /\ exc' = Reraise(exc)
  /\ outcome' = "failed"
  /\ pc' = "convert_raised"
  /\ UNCHANGED <<unitVars, batchVars, countVars, input_exists, audio_file,
                 mp3_exists, mediaVars, engineVars, splitVars, chunkVars,
                 textVars>>

\* src/source/engine/main.py lines 144-149: the call returned and the file
\* is counted as a success, or it raised and the file is counted as failed.
ConvertCounted ==
  /\ pc \in {"convert_returned", "convert_raised"}
  /\ successful_conversions' =
       IF pc = "convert_returned" THEN successful_conversions + 1
       ELSE successful_conversions
  /\ failed_conversions' =
       IF pc = "convert_raised" THEN failed_conversions + 1
       ELSE failed_conversions
  /\ counted' = [counted EXCEPT ![file_index] = @ + 1]
  /\ pc' = "convert_next"
  /\ UNCHANGED <<unitVars, batchVars, file_index, diskVars, mediaVars,
                 engineVars, splitVars, chunkVars, textVars, outcome, exc>>

ConvertNext ==
  \/ ConvertNextFile
  \/ ConvertStep1
  \/ ConvertStep2
  \/ ConvertCleanup
  \/ ConvertError
  \/ ConvertCounted

ConvertSpec == ConvertInit /\ [][ConvertNext]_vars

\* convert_mp4_to_mp3 is over: it returned, or it raised.
ConvertReturned == pc = "convert_returned"
ConvertRaised == pc = "convert_raised"

\* C25 as stated: after convert_mp4_to_mp3 with keep_intermediate false no
\* intermediate M4A file is left, whether it returned or raised; with
\* keep_intermediate true the file is there after a return; the exception
\* raised is the one that was caught.
C25_NoIntermediateLeftBehind ==
  /\ []((~keep_intermediate /\ (ConvertReturned \/ ConvertRaised))
         => ~m4a_exists)
  /\ []((keep_intermediate /\ ConvertReturned) => m4a_exists)
  /\ [][pc = "convert_error" => exc' = exc]_vars

\* C25, corrected: with keep_intermediate false an intermediate M4A file is
\* left after either exit only if os.remove was called on it and failed;
\* with keep_intermediate true the file is there after a return and is never
\* removed; the except clause raises the exception it caught, and a return
\* carries no exception.
C25_IntermediateLeftOnlyIfRemovalFailed ==
  /\ []((~keep_intermediate /\ (ConvertReturned \/ ConvertRaised)
          /\ m4a_exists) => remove_called)
  /\ []((keep_intermediate /\ ConvertReturned) => m4a_exists)
  /\ [](keep_intermediate => ~remove_called)
  /\ [](ConvertReturned => (exc = "none" /\ mp3_exists))
  /\ [](ConvertRaised => exc \in {"FileNotFoundError", "RuntimeError"})
  /\ [][pc = "convert_error" => (exc' = exc /\ pc' = "convert_raised")]_vars

\* Step 2 failed with the intermediate file on disk and keep_intermediate
\* false; the except clause removed the file and raised the RuntimeError.
C25_Witness ==
  /\ ConvertRaised
  /\ ~keep_intermediate
  /\ input_exists
  /\ exc = "RuntimeError"
  /\ remove_called
  /\ ~m4a_exists

\* C26: in a multi-chunk file (split as planned, every probe answering the
\* true duration) the offset-adjusted segments, taken in chunk-index order,
\* are in temporal order: no segment of chunk k+1 starts before the latest
\* end of a segment of chunk k.
C26_SegmentsInTemporalOrder ==
  (/\ PlannedChunksMade
   /\ Len(chunk_files) > 1
   /\ pc = "chunks"
   /\ offset_step = OffsetStep(RInt(audio_duration), Len(chunk_files)))
    => \A k \in 1..(Len(results) - 1) :
         \A i \in 1..Len(results[k].segments) :
           \A j \in 1..Len(results[k + 1].segments) :
             RLe(results[k].segments[i].end, results[k + 1].segments[j].start)

\* C27: while an operation is monitored the running flag is true and the
\* duration is the one probed for its own input (0 when the probe failed);
\* before its first line is parsed the elapsed time and the percentage are
\* 0, and afterwards the percentage is the one its last parsed line gave, so
\* nothing of an earlier operation shows; whenever
\* _run_ffmpeg_with_progress is not running (it returned True, returned
\* False after a non-zero exit or an exception, or has not been called
\* again yet) the running flag is false.
C27_ProgressResetAndFlagCleared ==
  /\ pc = "monitor"
       => /\ is_running
          /\ tracker_duration = IF probe = "failed" THEN RZero
                                ELSE RInt(audio_duration)
          /\ IF parse_log = <<>>
             THEN /\ tracker_current_time = RZero
                  /\ progress_percentage = RZero
             ELSE progress_percentage = parse_log[Len(parse_log)].percentage
  /\ pc \in {"ffmpeg_start", "ffmpeg_true", "ffmpeg_false"} => ~is_running

\* The second operation on the same tracker has started, on a 10-second
\* input: the flag is up, the duration is 10 and time and percentage are 0.
C27_Witness ==
  /\ file_index = 1
  /\ pc = "monitor"
  /\ parse_log = <<>>
  /\ is_running
  /\ audio_duration = 10
  /\ tracker_duration = RInt(10)
  /\ tracker_current_time = RZero
  /\ progress_percentage = RZero

\* C28: the splitting loop terminates whatever the file size and the probes
\* answered: every iteration of the loop (a step taken while start_time is
\* below total_duration) either moves start_time strictly forward or leaves
\* the loop because the extraction failed.
C28_SplitLoopAdvancesOrLeaves ==
  [][(pc = "split_loop" /\ RLt(start_time, total_duration))
       => \/ RLt(start_time, start_time')
          \/ (pc' # "split_loop" /\ extract_failed')]_vars

\* C29: in one run each input file is processed exactly once: no file ever
\* causes more than one increment of the success and failure counters, and
\* from the first summary on every file has caused exactly one.
C29_EachFileCountedOnce ==
  /\ \A i \in 1..total_files : counted[i] <= 1
  /\ TallyReported => \A i \in 1..total_files : counted[i] = 1

\* ------------------------------- the cleaning step of transcribe_chunk alone
\* The texts the backend may return: every text of at most MaxTextLen
\* characters over two characters of a configured phrase, a space and
\* another character.
TextAlphabet == {"gu", "dok", " ", "x"}
BackendTexts == UNION { [1..n -> TextAlphabet] : n \in 0..MaxTextLen }

\* A loaded transcriber before transcribe_chunk is called on one chunk.
CleanInit ==
  /\ UnitsIdle
  /\ BatchIdle
  /\ outcome = "none"
  /\ exc = "none"
  /\ audio_file = "m4a"
  /\ remove_called = FALSE
  /\ m4a_exists = TRUE
  /\ mp3_exists = FALSE
  /\ audio_duration = 45
  /\ audio_size_mb = 10
  /\ audio_present = TRUE
  /\ device = "cpu"
  /\ model = "loaded"
  /\ gpu_cache = "empty"
  /\ load_calls = 1
  /\ temp_dir = "exists"
  /\ rmtree_called = FALSE
  /\ plan_total_duration = RInt(45)
  /\ chunk_duration = RInt(45)
  /\ total_duration = RInt(45)
  /\ start_time = RZero
  /\ chunk_files = <<[start |-> RZero, end |-> RInt(45)]>>
  /\ extract_failed = FALSE
  /\ offset_step = RZero
  /\ results = <<>>
  /\ chunk_calls = <<>>
  /\ text_written = FALSE
  /\ final_transcript = <<>>
  /\ pc = "chunks"

\* transcribe_chunk on the only chunk (lines 266-344): the backend returns
\* the text raw and one segment, the offset is 0, the text is cleaned.
CleanChunk ==
  /\ pc = "chunks"
  /\ results = <<>>
  /\ \E raw \in BackendTexts :
       results' = <<ChunkResult([text |-> raw,
                                 segments |-> <<[start |-> RZero,
                                                 end |-> RInt(45)]>>],
                                RZero)>>
  /\ chunk_calls' = <<[start_time |-> RZero, failed |-> FALSE]>>
  /\ UNCHANGED <<unitVars, batchVars, countVars, diskVars, mediaVars,
                 engineVars, splitVars, offset_step, textVars, pc, outcome,
                 exc>>

CleanNext == CleanChunk

CleanSpec == CleanInit /\ [][CleanNext]_vars

\* Two whitespace characters next to each other in text.
HasWhitespaceRun(text) ==
  \E i \in 1..(Len(text) - 1) : IsSpace(text[i]) /\ IsSpace(text[i + 1])

\* C30: whatever text the backend returned, the text of the chunk after the
\* cleaning step contains none of the configured phrases as a substring and
\* no two whitespace characters in a row.
C30_CleanedTextHasNoBoilerplate ==
  \A k \in 1..Len(results) :
    /\ \A p \in 1..Len(all_unwanted) :
         ~Contains(results[k].text, all_unwanted[p])
    /\ ~HasWhitespaceRun(results[k].text)

====
